---- MODULE Spec2Model ----
(***************************************************************************)
(* Model of internal/gohome/worktime.go of go-worktime.                    *)
(*                                                                         *)
(* Three functions are modelled, each with a specification of its own:     *)
(*   ComputeWorkTime          (SpecWorkTime)   the presence reducer        *)
(*   ComputeAccountedWorkTime (SpecAccounted)  the policy adjuster         *)
(*   GetLeaveTime             (SpecLeaveTime)  the target-time solver      *)
(*                                                                         *)
(* time.Duration values are counted in ticks of half a minute, so that    *)
(* durations need not be whole minutes; time.Time values are ticks since   *)
(* an arbitrary origin.  All modelled durations are day-scale, far from    *)
(* the int64 range of time.Duration, so no addition wraps around.          *)
(***************************************************************************)
EXTENDS Integers, Sequences, FiniteSets, TLC

VARIABLES
    pc,                 \* position of the running call
    \* ---- ComputeWorkTime
    array,              \* the caller's backing array (len..cap included)
    callerLen,          \* len(entries) of the slice the caller passed
    entries,            \* the slice the function works on
    state,              \* state of the reduction automaton
    i,                  \* loop index (0-based, as in the code)
    workTime,           \* accumulated work time
    lastCome,           \* Time of the Come that opened the current block
    now,                \* value read from time.Now(), NoTime if never read
    wtRet,              \* what ComputeWorkTime returned
    \* ---- ComputeAccountedWorkTime
    accIn,              \* arguments (workTime, breakTime) of the first call
    accOut,             \* its result
    accIn2,             \* arguments of the follow-up call
    accOut2,            \* result of the follow-up call
    \* ---- GetLeaveTime
    startTime,          \* argument
    breakTime,          \* argument
    targetWorkTime,     \* argument
    searchWorkTime,     \* loop variable workTime of the search
    iterations,         \* number of loop bodies executed so far
    ltRet               \* what GetLeaveTime returned

vars == <<pc, array, callerLen, entries, state, i, workTime, lastCome, now,
          wtRet, accIn, accOut, accIn2, accOut2, startTime, breakTime,
          targetWorkTime, searchWorkTime, iterations, ltRet>>

wtVars  == <<array, callerLen, entries, state, i, workTime, lastCome, now, wtRet>>
accVars == <<accIn, accOut, accIn2, accOut2>>
ltVars  == <<startTime, breakTime, targetWorkTime, searchWorkTime, iterations, ltRet>>

----------------------------------------------------------------------------
(* Units and the constants of the policy.                                  *)

Minute == 2
Hour == 60 * Minute

\* error values: nil, the package's errors and the fmt.Errorf values, the
\* latter with the entry type and index they are formatted with
Err(msg, type, index) == [msg |-> msg, type |-> type, index |-> index]
Nil == Err("nil", "", -1)
Pending == Err("not returned", "", -1)

----------------------------------------------------------------------------
(* ComputeAccountedWorkTime, worktime.go:99-136.                           *)

AccPair(w, b) == [workTime |-> w, breakTime |-> b]

\* SixHourTier with "breakTime = 30 * time.Minute" left out
SixHourTierKeepsBreak(w, b) ==
    IF w > 6 * Hour /\ b < 30 * Minute
    THEN IF (w + b - 6 * Hour) < 30 * Minute
         THEN AccPair(6 * Hour, w + b - 6 * Hour)
         ELSE AccPair(w + b - 30 * Minute, b)
    ELSE AccPair(w, b)

\* SixHourTier without the case of a slack below 30 minutes
SixHourTierAlwaysFull(w, b) ==
    IF w > 6 * Hour /\ b < 30 * Minute
    THEN AccPair(w + b - 30 * Minute, 30 * Minute)
    ELSE AccPair(w, b)

\* if workTime > 6h { if breakTime < 30min { ... } }
SixHourTier(w, b) ==
    IF w > 6 * Hour /\ b < 30 * Minute
    THEN IF (w + b - 6 * Hour) < 30 * Minute
         THEN AccPair(6 * Hour, w + b - 6 * Hour)
         ELSE AccPair(w + b - 30 * Minute, 30 * Minute)
    ELSE AccPair(w, b)

\* NineHourTier taking the whole 45 minutes off whatever break was taken
NineHourTierIgnoresBreak(w, b) ==
    IF w > 9 * Hour /\ b < 45 * Minute
    THEN IF (w + b - 9 * Hour) < 45 * Minute
         THEN AccPair(9 * Hour, w + b - 9 * Hour)
         ELSE AccPair(w - 45 * Minute, 45 * Minute)
    ELSE AccPair(w, b)

\* NineHourTier asking for the 30 minutes of the tier before it
NineHourTierAsksThirty(w, b) ==
    IF w > 9 * Hour /\ b < 30 * Minute
    THEN IF (w + b - 9 * Hour) < 45 * Minute
         THEN AccPair(9 * Hour, w + b - 9 * Hour)
         ELSE AccPair(w + b - 45 * Minute, 45 * Minute)
    ELSE AccPair(w, b)

\* NineHourTier taking 30 minutes where it gives a break of 45
NineHourTierTakesThirty(w, b) ==
    IF w > 9 * Hour /\ b < 45 * Minute
    THEN IF (w + b - 9 * Hour) < 45 * Minute
         THEN AccPair(9 * Hour, w + b - 9 * Hour)
         ELSE AccPair(w + b - 30 * Minute, 45 * Minute)
    ELSE AccPair(w, b)

\* if workTime > 9h { if breakTime < 45min { ... } }
NineHourTier(w, b) ==
    IF w > 9 * Hour /\ b < 45 * Minute
    THEN IF (w + b - 9 * Hour) < 45 * Minute
         THEN AccPair(9 * Hour, w + b - 9 * Hour)
         ELSE AccPair(w + b - 45 * Minute, 45 * Minute)
    ELSE AccPair(w, b)

\* TenHourCap with "workTime = 10 * time.Hour" left out
TenHourCapKeepsWork(w, b) ==
    IF w > 10 * Hour
    THEN AccPair(w, w + b - 10 * Hour)
    ELSE AccPair(w, b)

\* TenHourCap throwing the excess away
TenHourCapDropsExcess(w, b) ==
    IF w > 10 * Hour
    THEN AccPair(10 * Hour, b)
    ELSE AccPair(w, b)

\* TenHourCap cutting at nine hours
TenHourCapAtNine(w, b) ==
    IF w > 9 * Hour
    THEN AccPair(9 * Hour, w + b - 9 * Hour)
    ELSE AccPair(w, b)

\* if workTime > 10h { ... }
TenHourCap(w, b) ==
    IF w > 10 * Hour
    THEN AccPair(10 * Hour, w + b - 10 * Hour)
    ELSE AccPair(w, b)

ComputeAccountedWorkTime(w, b) ==
    LET t6 == SixHourTier(w, b)
        t9 == NineHourTier(t6.workTime, t6.breakTime)
    IN  TenHourCap(t9.workTime, t9.breakTime)

----------------------------------------------------------------------------
(* ComputeWorkTime, worktime.go:37-96.                                     *)

EntryTypeCome == "come"
EntryTypeLeave == "leave"
EntryTypeTrip == "trip"
EntryTypes == {EntryTypeCome, EntryTypeLeave, EntryTypeTrip}

Entry(type, time) == [Type |-> type, Time |-> time]

UnixEpoch == 0          \* time.Unix(0, 0)
ZeroTime == -1          \* the zero time.Time of "var lastCome time.Time"

ErrNoEntries == Err("no entries", "", -1)
ErrAllNight == Err("did you work all night?", "", -1)
ErrSameDay == Err("list of entries must be for the same day", "", -1)
ErrUnexpected(n, type, index) == Err(<<n, "unexpected entry">>, type, index)

\* the calendar date (Year, Month, Day) of an instant, as a day number
DayLength == 3
Date(t) == t \div DayLength

WorkTimeResult(w, s, b, e) ==
    [workTime |-> w, startTime |-> s, breakTime |-> b, err |-> e]

\* the checks with the same-day check made before the check of the first entry
ValidateEntriesDayFirst(es) ==
    IF Len(es) = 0 THEN ErrNoEntries
    ELSE IF Date(es[1].Time) # Date(es[Len(es)].Time) THEN ErrSameDay
    ELSE IF es[1].Type # EntryTypeCome THEN ErrAllNight
    ELSE Nil

\* lines 38-49: the checks made before the reduction
ValidateEntries(es) ==
    IF Len(es) = 0 THEN ErrNoEntries
    ELSE IF es[1].Type # EntryTypeCome THEN ErrAllNight
    ELSE IF Date(es[1].Time) # Date(es[Len(es)].Time) THEN ErrSameDay
    ELSE Nil

stateNone == 0
stateWorking == 1
stateTrip == 2

\* the automaton taking a second Come while working
TransitionReCome(st, type) ==
    IF st = stateNone
    THEN IF type = EntryTypeCome
         THEN [next |-> stateWorking, fail |-> 0]
         ELSE [next |-> st, fail |-> 1]
    ELSE IF st = stateWorking
    THEN IF type = EntryTypeLeave
         THEN [next |-> stateNone, fail |-> 0]
         ELSE IF type = EntryTypeTrip
         THEN [next |-> stateTrip, fail |-> 0]
         ELSE [next |-> stateWorking, fail |-> 0]
    ELSE IF type = EntryTypeCome
         THEN [next |-> stateWorking, fail |-> 0]
         ELSE [next |-> st, fail |-> 3]

\* lines 66-90: where the automaton goes on an entry of the given type;
\* fail = 0 when the entry is accepted, else the number in the error text
Transition(st, type) ==
    IF st = stateNone
    THEN IF type = EntryTypeCome
         THEN [next |-> stateWorking, fail |-> 0]
         ELSE [next |-> st, fail |-> 1]
    ELSE IF st = stateWorking
    THEN IF type = EntryTypeLeave
         THEN [next |-> stateNone, fail |-> 0]
         ELSE IF type = EntryTypeTrip
         THEN [next |-> stateTrip, fail |-> 0]
         ELSE [next |-> st, fail |-> 2]
    ELSE IF type = EntryTypeCome
         THEN [next |-> stateWorking, fail |-> 0]
         ELSE [next |-> st, fail |-> 3]

\* the subtraction the wrong way round
AccrueSwapped(w, t, come) == w + (come - t)

\* line 76: workTime += entries[i].Time.Sub(lastCome)
Accrue(w, t, come) == w + (t - come)

\* lastCome set again by the Come that ends a trip
NextLastComeAfterTrip(st, t, come) ==
    IF st = stateNone \/ st = stateTrip THEN t ELSE come

\* lines 67-69 and 85-86: lastCome after an accepted entry at time t; only
\* the Come taken in stateNone assigns it
NextLastCome(st, t, come) == IF st = stateNone THEN t ELSE come

\* the presence time taken up to the entry before the last one
PresenceTimeBeforeLast(es) == es[Len(es) - 1].Time - es[1].Time

\* line 93: presenceTime := entries[len(entries)-1].Time.Sub(entries[0].Time)
PresenceTime(es) == es[Len(es)].Time - es[1].Time

----------------------------------------------------------------------------
(* The idle values of the variables a specification does not use.          *)

IdleWorkTime ==
    /\ array = <<>> /\ callerLen = 0 /\ entries = <<>>
    /\ state = stateNone /\ i = 0 /\ workTime = 0 /\ lastCome = ZeroTime
    /\ now = ZeroTime /\ wtRet = WorkTimeResult(0, UnixEpoch, 0, Pending)

IdleAccounted ==
    /\ accIn = AccPair(0, 0) /\ accOut = AccPair(0, 0)
    /\ accIn2 = AccPair(0, 0) /\ accOut2 = AccPair(0, 0)

IdleLeaveTime ==
    /\ startTime = 0 /\ breakTime = 0 /\ targetWorkTime = 0
    /\ searchWorkTime = 0 /\ iterations = 0
    /\ ltRet = [time |-> UnixEpoch, err |-> Pending]

----------------------------------------------------------------------------
(* Specification of ComputeWorkTime: the caller passes any slice of at     *)
(* most MaxLen entries, sorted or not, whose backing array may have spare  *)
(* capacity; the function runs statement by statement.                     *)

MaxLen == 4
MaxTime == 3
MaxSpare == 1

Times == 0..MaxTime
Entries == [Type : EntryTypes, Time : Times]

\* what the caller keeps in the array behind the end of the slice
SpareEntry == Entry(EntryTypeTrip, 0)

SeqsUpTo(S, n) == UNION {[1..k -> S] : k \in 0..n}

InitWorkTime ==
    /\ pc = "wt_call"
    /\ entries \in SeqsUpTo(Entries, MaxLen)
    /\ callerLen = Len(entries)
    /\ \E spare \in SeqsUpTo({SpareEntry}, MaxSpare) : array = entries \o spare
    /\ state = stateNone /\ i = 0 /\ workTime = 0 /\ lastCome = ZeroTime
    /\ now = ZeroTime /\ wtRet = WorkTimeResult(0, UnixEpoch, 0, Pending)
    /\ IdleAccounted
    /\ IdleLeaveTime

\* lines 38-49
WorkTimeValidate ==
    /\ pc = "wt_call"
    /\ LET e == ValidateEntries(entries)
       IN  IF e # Nil
           THEN /\ wtRet' = WorkTimeResult(0, UnixEpoch, 0, e)
                /\ pc' = "wt_done"
           ELSE /\ pc' = "wt_append"
                /\ UNCHANGED wtRet
    /\ UNCHANGED <<array, callerLen, entries, state, i, workTime, lastCome,
                   now, accVars, ltVars>>

\* lines 51-61: append writes the new element into the caller's backing
\* array when it has capacity left and into a fresh array otherwise
WorkTimeAppend ==
    /\ pc = "wt_append"
    /\ IF entries[Len(entries)].Type # EntryTypeLeave
       THEN \E t \in Times :
               /\ now' = t
               /\ entries' = Append(entries, Entry(EntryTypeLeave, t))
               /\ array' = IF Len(entries) < Len(array)
                           THEN [array EXCEPT ![Len(entries) + 1] =
                                               Entry(EntryTypeLeave, t)]
                           ELSE array
       ELSE UNCHANGED <<now, entries, array>>
    /\ state' = stateNone
    /\ pc' = "wt_loop"
    /\ UNCHANGED <<callerLen, i, workTime, lastCome, wtRet, accVars, ltVars>>

\* lines 65-91: one iteration of the loop
WorkTimeStep ==
    /\ pc = "wt_loop"
    /\ i < Len(entries)
    /\ LET e == entries[i + 1]
           tr == Transition(state, e.Type)
       IN  IF tr.fail # 0
           THEN /\ wtRet' = WorkTimeResult(0, UnixEpoch, 0,
                                           ErrUnexpected(tr.fail, e.Type, i))
                /\ pc' = "wt_done"
                /\ UNCHANGED <<state, i, workTime, lastCome>>
           ELSE /\ state' = tr.next
                /\ i' = i + 1
                /\ lastCome' = NextLastCome(state, e.Time, lastCome)
                /\ workTime' = IF state = stateWorking /\ e.Type = EntryTypeLeave
                               THEN Accrue(workTime, e.Time, lastCome)
                               ELSE workTime
                /\ UNCHANGED <<pc, wtRet>>
    /\ UNCHANGED <<array, callerLen, entries, now, accVars, ltVars>>

\* lines 93-95
WorkTimeReturn ==
    /\ pc = "wt_loop"
    /\ i >= Len(entries)
    /\ wtRet' = WorkTimeResult(workTime, entries[1].Time,
                               PresenceTime(entries) - workTime, Nil)
    /\ pc' = "wt_done"
    /\ UNCHANGED <<array, callerLen, entries, state, i, workTime, lastCome,
                   now, accVars, ltVars>>

NextWorkTime ==
    \/ WorkTimeValidate
    \/ WorkTimeAppend
    \/ WorkTimeStep
    \/ WorkTimeReturn

SpecWorkTime == InitWorkTime /\ [][NextWorkTime]_vars

----------------------------------------------------------------------------
(* Specification of ComputeAccountedWorkTime: the arguments are drawn from *)
(* a window around the policy thresholds, the function is called, and the  *)
(* caller then calls it once more, either on the result it got or with a   *)
(* longer work time and the same break time.                               *)

MinAccWork == 690       \* 5h45m
MaxAccWork == 1350      \* 11h15m
MaxAccDeficit == 30      \* the shortest break is -15m
MaxAccBreak == 100       \* 50m
MaxDelta == 20          \* 10m

InitAccounted ==
    /\ pc = "acc_call"
    /\ accIn \in [workTime : MinAccWork..MaxAccWork,
                  breakTime : -MaxAccDeficit..MaxAccBreak]
    /\ accOut = AccPair(0, 0) /\ accIn2 = AccPair(0, 0) /\ accOut2 = AccPair(0, 0)
    /\ IdleWorkTime
    /\ IdleLeaveTime

\* accountedWorkTime, accountedBreakTime, _ := ComputeAccountedWorkTime(w, b)
AccountedCall ==
    /\ pc = "acc_call"
    /\ accOut' = ComputeAccountedWorkTime(accIn.workTime, accIn.breakTime)
    /\ pc' = "acc_returned"
    /\ UNCHANGED <<accIn, accIn2, accOut2, wtVars, ltVars>>

\* the caller passes the accounted values back in
AccountedCallOnResult ==
    /\ pc = "acc_returned"
    /\ accIn2' = accOut
    /\ accOut2' = ComputeAccountedWorkTime(accOut.workTime, accOut.breakTime)
    /\ pc' = "acc_again"
    /\ UNCHANGED <<accIn, accOut, wtVars, ltVars>>

\* the caller asks again for a work time that is d ticks longer
AccountedCallLonger ==
    /\ pc = "acc_returned"
    /\ \E d \in 0..MaxDelta :
          /\ accIn2' = AccPair(accIn.workTime + d, accIn.breakTime)
          /\ accOut2' = ComputeAccountedWorkTime(accIn.workTime + d, accIn.breakTime)
    /\ pc' = "acc_longer"
    /\ UNCHANGED <<accIn, accOut, wtVars, ltVars>>

NextAccounted ==
    \/ AccountedCall
    \/ AccountedCallOnResult
    \/ AccountedCallLonger

SpecAccounted == InitAccounted /\ [][NextAccounted]_vars

----------------------------------------------------------------------------
(* GetLeaveTime, worktime.go:139-157.                                      *)

ErrMaxTimeReached ==
    Err("a maximum working time of 10 hours per day is allowed", "", -1)

LeaveTimeResult(t, e) == [time |-> t, err |-> e]

\* the precondition with >= for >
ExceedsMaxTimeInclusive(target) == target >= 10 * Hour

\* if targetWorkTime > (10 * time.Hour)
ExceedsMaxTime(target) == target > 10 * Hour

\* the search going in steps of two minutes
NextSearchWorkTimeCoarse(w) == w + 2 * Minute

\* the search going in steps of an hour
NextSearchWorkTimeByHour(w) == w + Hour

\* the post statement of the for loop: workTime += time.Minute
NextSearchWorkTime(w) == w + Minute

MinTarget == 700        \* 5h50m
MaxTarget == 1320       \* 11h00m
MaxLeaveDeficit == 10   \* the shortest break is -5m
MaxLeaveBreak == 95     \* 47m30s
MaxStartTime == 0
MaxIterations == 100

InitLeaveTime ==
    /\ pc = "lt_call"
    /\ startTime \in 0..MaxStartTime
    /\ breakTime \in -MaxLeaveDeficit..MaxLeaveBreak
    /\ targetWorkTime \in MinTarget..MaxTarget
    /\ searchWorkTime = 0 /\ iterations = 0
    /\ ltRet = LeaveTimeResult(UnixEpoch, Pending)
    /\ IdleWorkTime
    /\ IdleAccounted

\* lines 142-147: the precondition and the loop's init statement
LeaveTimeCheck ==
    /\ pc = "lt_call"
    /\ IF ExceedsMaxTime(targetWorkTime)
       THEN /\ ltRet' = LeaveTimeResult(UnixEpoch, ErrMaxTimeReached)
            /\ pc' = "lt_done"
            /\ UNCHANGED searchWorkTime
       ELSE /\ searchWorkTime' = targetWorkTime
            /\ pc' = "lt_loop"
            /\ UNCHANGED ltRet
    /\ UNCHANGED <<startTime, breakTime, targetWorkTime, iterations,
                   wtVars, accVars>>

\* lines 147-156: one body of the search loop and its post statement
LeaveTimeStep ==
    /\ pc = "lt_loop"
    /\ iterations < MaxIterations
    /\ iterations' = iterations + 1
    /\ LET acc == ComputeAccountedWorkTime(searchWorkTime, breakTime)
       IN  IF acc.workTime >= targetWorkTime
           THEN /\ ltRet' = LeaveTimeResult(startTime + acc.workTime + acc.breakTime, Nil)
                /\ pc' = "lt_done"
                /\ UNCHANGED searchWorkTime
           ELSE /\ searchWorkTime' = NextSearchWorkTime(searchWorkTime)
                /\ UNCHANGED <<pc, ltRet>>
    /\ UNCHANGED <<startTime, breakTime, targetWorkTime, wtVars, accVars>>

NextLeaveTime ==
    \/ LeaveTimeCheck
    \/ LeaveTimeStep

SpecLeaveTime == InitLeaveTime /\ [][NextLeaveTime]_vars

\* the loop is a plain sequential loop: it keeps running until it returns
FairSpecLeaveTime == SpecLeaveTime /\ WF_vars(NextLeaveTime)

----------------------------------------------------------------------------
(* Properties of ComputeWorkTime.                                          *)

Ordered(es) == \A j \in 1..(Len(es) - 1) : es[j].Time <= es[j + 1].Time

Accepted == pc = "wt_done" /\ wtRet.err = Nil

\* the slice passed in ended in Leave, so that nothing was appended
EndsInLeave ==
    /\ callerLen > 0
    /\ array[callerLen].Type = EntryTypeLeave

\* C1: for a time-ordered sequence ending in Leave that ComputeWorkTime
\* accepts, breakTime = (last.Time - first.Time) - workTime, and workTime
\* and breakTime are both non-negative.
C1_BreakIsPresenceMinusWork ==
    (Accepted /\ EndsInLeave /\ Ordered(entries)) =>
        /\ wtRet.breakTime =
              (array[callerLen].Time - array[1].Time) - wtRet.workTime
        /\ wtRet.workTime >= 0
        /\ wtRet.breakTime >= 0

\* an ordered day with two blocks, some work and some break
C1_Witness ==
    /\ Accepted /\ EndsInLeave /\ Ordered(entries)
    /\ wtRet.workTime > 0
    /\ wtRet.breakTime > 0

\* the error the loop returns for an entry the automaton does not accept
RejectedAs(n, type, index) ==
    /\ pc' = "wt_done"
    /\ wtRet' = WorkTimeResult(0, UnixEpoch, 0, ErrUnexpected(n, type, index))

AcceptedTo(st) ==
    /\ state' = st
    /\ i' = i + 1
    /\ pc' = "wt_loop"

TableStep ==
    (pc = "wt_loop" /\ i < Len(entries)) =>
        LET t == entries[i + 1].Type
        IN  CASE state = stateNone /\ t = EntryTypeCome -> AcceptedTo(stateWorking)
              [] state = stateNone /\ t = EntryTypeLeave -> RejectedAs(1, t, i)
              [] state = stateNone /\ t = EntryTypeTrip -> RejectedAs(1, t, i)
              [] state = stateWorking /\ t = EntryTypeLeave -> AcceptedTo(stateNone)
              [] state = stateWorking /\ t = EntryTypeTrip -> AcceptedTo(stateTrip)
              [] state = stateWorking /\ t = EntryTypeCome -> RejectedAs(2, t, i)
              [] state = stateTrip /\ t = EntryTypeCome -> AcceptedTo(stateWorking)
              [] state = stateTrip /\ t = EntryTypeLeave -> RejectedAs(3, t, i)
              [] state = stateTrip /\ t = EntryTypeTrip -> RejectedAs(3, t, i)

\* C9: the loop starts in None, takes each entry once and in order through
\* the None/Working/Trip table, returns the unexpected-entry error at the
\* first entry the table rejects, and a successful return leaves it in None
\* with every entry processed.
C9_TransitionTable ==
    /\ [][TableStep]_vars
    /\ []((pc = "wt_loop" /\ i = 0) => state = stateNone)
    /\ [](Accepted => (state = stateNone /\ i = Len(entries)))

\* a day with a trip in it is accepted
C9_Witness ==
    /\ Accepted
    /\ \E j \in 1..Len(entries) : entries[j].Type = EntryTypeTrip

\* C10: an empty sequence fails with ErrNoEntries, and a sequence whose
\* first entry is Leave or Trip fails with the invalid-sequence error
\* whatever follows, before anything else is looked at.
C10_InputShapeErrors ==
    /\ (callerLen = 0 /\ pc # "wt_call") =>
           (pc = "wt_done" /\ wtRet.err = ErrNoEntries)
    /\ (callerLen > 0 /\ array[1].Type \in {EntryTypeLeave, EntryTypeTrip}
          /\ pc # "wt_call") =>
           (pc = "wt_done" /\ wtRet.err = ErrAllNight)

\* a sequence that starts with Trip and ends on another day
C10_Witness ==
    /\ pc = "wt_done"
    /\ callerLen > 1
    /\ array[1].Type = EntryTypeTrip
    /\ Date(array[1].Time) # Date(array[callerLen].Time)
    /\ wtRet.err = ErrAllNight

\* the slice the caller passed
CallerEntries == SubSeq(array, 1, callerLen)

\* the index of the first entry of the block that entry j belongs to: the
\* entry after the last Leave before j
BlockStart(es, j) ==
    LET leaves == {k \in 1..(j - 1) : es[k].Type = EntryTypeLeave}
    IN  IF leaves = {} THEN 1
        ELSE 1 + CHOOSE k \in leaves : \A l \in leaves : l <= k

\* the sum, over the Leave entries among the first j entries, of the time
\* from the first entry of the Leave's block to the Leave
RECURSIVE BlockWork(_, _)
BlockWork(es, j) ==
    IF j = 0 THEN 0
    ELSE BlockWork(es, j - 1) +
         (IF es[j].Type = EntryTypeLeave
          THEN es[j].Time - es[BlockStart(es, j)].Time
          ELSE 0)

\* C11: for an accepted sequence ending in Leave, workTime is the sum over
\* the blocks Come, (Trip, Come)*, Leave of the time from the block's first
\* Come to its Leave, whatever the times of the Trip and the later Come are;
\* startTime is the time of the first entry, and a day of one Come and one
\* Leave has no break.
C11_TripsCountAsWork ==
    (Accepted /\ EndsInLeave) =>
        /\ wtRet.workTime = BlockWork(CallerEntries, callerLen)
        /\ wtRet.startTime = array[1].Time
        /\ callerLen = 2 =>
               /\ wtRet.workTime = array[2].Time - array[1].Time
               /\ wtRet.breakTime = 0

\* Come, Trip, Come, Leave at increasing times: the whole span is work
C11_Witness ==
    /\ Accepted /\ EndsInLeave
    /\ callerLen = 4
    /\ array[2].Type = EntryTypeTrip
    /\ array[1].Time < array[2].Time
    /\ array[2].Time < array[3].Time
    /\ wtRet.workTime = array[4].Time - array[1].Time
    /\ wtRet.workTime > 0

\* C12: no step of ComputeWorkTime changes the caller's data: neither the
\* entries of the slice that was passed nor the elements of its backing
\* array between its length and its capacity.
C12_CallerDataUnchanged == [][array' = array]_vars

\* every entry may follow the one before it in the None/Working/Trip table:
\* a Come opens the day or follows a Leave or a Trip, a Leave or a Trip
\* follows a Come
TableShaped(es) ==
    \A j \in 1..Len(es) :
        IF es[j].Type = EntryTypeCome
        THEN j = 1 \/ es[j - 1].Type # EntryTypeCome
        ELSE j > 1 /\ es[j - 1].Type = EntryTypeCome

\* a day in progress: the ordered entries of one day, opened by a Come and
\* not closed by a Leave
LiveInput(es) ==
    /\ Len(es) > 0
    /\ Ordered(es)
    /\ Date(es[1].Time) = Date(es[Len(es)].Time)
    /\ es[1].Type = EntryTypeCome
    /\ es[Len(es)].Type # EntryTypeLeave
    /\ TableShaped(es)

\* the clock was read, at or after the last entry and on its day
NowAfterLast(es) ==
    /\ now # ZeroTime
    /\ now >= es[Len(es)].Time
    /\ Date(now) = Date(es[Len(es)].Time)

\* work, start and break time of the sequence es closed by a Leave at t
ClosedAt(es, t) ==
    LET closed == Append(es, Entry(EntryTypeLeave, t))
        work == BlockWork(closed, Len(closed))
    IN  WorkTimeResult(work, es[1].Time, (t - es[1].Time) - work, Nil)

\* C13 as claimed: every day in progress, whether its last entry is a Come
\* or a Trip, is computed without error as if a Leave at the current time
\* closed it.
C13_LiveComputation ==
    (pc = "wt_done" /\ LiveInput(CallerEntries)) =>
        /\ now # ZeroTime
        /\ NowAfterLast(CallerEntries) => wtRet = ClosedAt(CallerEntries, now)

\* C13, amended: a day in progress whose last entry is a Come is computed
\* without error as if a Leave at the current time closed it.
C13_LiveComputationAfterCome ==
    (/\ pc = "wt_done"
     /\ LiveInput(CallerEntries)
     /\ array[callerLen].Type = EntryTypeCome) =>
        /\ now # ZeroTime
        /\ NowAfterLast(CallerEntries) => wtRet = ClosedAt(CallerEntries, now)

\* back at work after a first block, asked later the same day
C13_Witness ==
    /\ Accepted
    /\ LiveInput(CallerEntries)
    /\ callerLen >= 3
    /\ NowAfterLast(CallerEntries)
    /\ now > array[callerLen].Time
    /\ wtRet.workTime > 0

\* C16: a successful return has reduced a sequence, the appended Leave
\* included, whose first and last entry are on the same calendar date, and
\* a slice that starts with a Come and ends on another date is refused with
\* the same-day error.
C16_ReducedWithinOneDay ==
    /\ Accepted =>
           Date(entries[1].Time) = Date(entries[Len(entries)].Time)
    /\ (/\ pc = "wt_done"
        /\ callerLen > 0
        /\ array[1].Type = EntryTypeCome
        /\ Date(array[1].Time) # Date(array[callerLen].Time)) =>
           wtRet.err = ErrSameDay

----------------------------------------------------------------------------
(* Properties of ComputeAccountedWorkTime.                                 *)

\* C2: adjusting the adjusted values again returns them unchanged.
C2_Idempotent ==
    pc = "acc_again" => (accIn2 = accOut /\ accOut2 = accOut)

\* both tiers have moved time before the second call
C2_Witness ==
    /\ pc = "acc_again"
    /\ accIn.breakTime < 30 * Minute
    /\ accOut.workTime = 9 * Hour
    /\ accOut.breakTime > 30 * Minute

\* C3: for a fixed breakTime, a longer workTime never gets a smaller
\* accounted work time.
C3_Monotonic ==
    (/\ pc = "acc_longer"
     /\ accIn.breakTime = accIn2.breakTime
     /\ accIn.workTime <= accIn2.workTime)
        => accOut.workTime <= accOut2.workTime

\* two work times above six hours with too short a break
C3_Witness ==
    /\ pc = "acc_longer"
    /\ accIn.workTime > 6 * Hour
    /\ accIn.breakTime < 30 * Minute
    /\ accIn.workTime < accIn2.workTime
    /\ accOut.workTime < accOut2.workTime

\* C4: the accounted work time is never more than ten hours.
C4_Cap ==
    /\ pc # "acc_call" => accOut.workTime <= 10 * Hour
    /\ pc \in {"acc_again", "acc_longer"} => accOut2.workTime <= 10 * Hour

\* eleven hours of work are cut to ten
C4_Witness ==
    /\ pc = "acc_returned"
    /\ accIn.workTime >= 11 * Hour
    /\ accIn.breakTime >= 45 * Minute
    /\ accOut.workTime = 10 * Hour

\* C5: accounted work plus accounted break is the work plus the break
\* that was passed in.
C5_Conservation ==
    /\ pc # "acc_call" =>
          accOut.workTime + accOut.breakTime = accIn.workTime + accIn.breakTime
    /\ pc \in {"acc_again", "acc_longer"} =>
          accOut2.workTime + accOut2.breakTime
              = accIn2.workTime + accIn2.breakTime

\* all three rules have moved time from work to break
C5_Witness ==
    /\ pc = "acc_returned"
    /\ accIn.breakTime < 30 * Minute
    /\ accOut.workTime = 10 * Hour
    /\ accOut.breakTime > 45 * Minute

C15_MinimumBreak ==
    (pc # "acc_call" /\ accIn.breakTime >= 0) =>
        /\ accOut.workTime > 6 * Hour => accOut.breakTime >= 30 * Minute
        /\ accOut.workTime > 9 * Hour => accOut.breakTime >= 45 * Minute

\* more than nine hours accounted after both tiers have raised the break
C15_Witness ==
    /\ pc = "acc_returned"
    /\ accIn.breakTime >= 0
    /\ accIn.breakTime < 30 * Minute
    /\ accOut.workTime > 9 * Hour
    /\ accOut.breakTime = 45 * Minute

\* C17: for a non-negative breakTime, one minute more of workTime changes
\* the accounted work time by at least nothing and at most one minute.
C17_NoJumps ==
    (/\ pc = "acc_longer"
     /\ accIn.breakTime >= 0
     /\ accIn2.breakTime = accIn.breakTime
     /\ accIn2.workTime = accIn.workTime + Minute) =>
        /\ accOut2.workTime - accOut.workTime >= 0
        /\ accOut2.workTime - accOut.workTime <= Minute

\* the minute that takes the work time into the nine-hour tier
C17_Witness ==
    /\ pc = "acc_longer"
    /\ accIn.breakTime >= 30 * Minute
    /\ accIn.workTime = 9 * Hour
    /\ accIn2.workTime = 9 * Hour + Minute
    /\ accOut2.workTime = accOut.workTime

----------------------------------------------------------------------------
(* Properties of GetLeaveTime.                                             *)

Returned == pc = "lt_done" /\ ltRet.err = Nil

\* the work time that leaving at instant t amounts to
WorkUntil(t) == t - startTime - breakTime

\* C6: the returned instant reaches the target, and no instant a whole
\* number of minutes earlier (not before startTime + breakTime) does.
C6_MinimalLeaveTime ==
    (Returned /\ targetWorkTime <= 10 * Hour /\ breakTime >= 0) =>
        LET w == WorkUntil(ltRet.time)
        IN  /\ ComputeAccountedWorkTime(w, breakTime).workTime >= targetWorkTime
            /\ \A k \in 1..(w \div Minute) :
                  ComputeAccountedWorkTime(w - k * Minute, breakTime).workTime
                      < targetWorkTime

\* the search had to go past the target to make up for the missing break
C6_Witness ==
    /\ Returned
    /\ breakTime >= 0
    /\ iterations > 30
    /\ WorkUntil(ltRet.time) > targetWorkTime

\* the accounted work time of leaving at the returned instant
AccountedAtReturn ==
    ComputeAccountedWorkTime(WorkUntil(ltRet.time), breakTime).workTime

\* C18: for a target of at most ten hours and a non-negative break, the
\* accounted work time at the returned instant is at least the target and
\* less than a minute above it.
C18_AccurateToOneMinute ==
    (Returned /\ targetWorkTime <= 10 * Hour /\ breakTime >= 0) =>
        /\ AccountedAtReturn >= targetWorkTime
        /\ AccountedAtReturn < targetWorkTime + Minute

\* a search that ends half a minute above the target
C18_Witness ==
    /\ Returned
    /\ breakTime >= 0
    /\ iterations > 1
    /\ AccountedAtReturn > targetWorkTime

\* C7: GetLeaveTime returns ErrMaxTimeReached exactly for the targets above
\* ten hours, without searching, and returns no error for any other target.
C7_MaxTimeReachedIffAboveTenHours ==
    /\ pc = "lt_loop" => targetWorkTime <= 10 * Hour
    /\ pc = "lt_done" =>
          /\ (ltRet.err = ErrMaxTimeReached) <=> (targetWorkTime > 10 * Hour)
          /\ (targetWorkTime > 10 * Hour) => iterations = 0
          /\ (targetWorkTime <= 10 * Hour) => ltRet.err = Nil

\* the target of eleven hours is rejected
C7_Witness ==
    /\ pc = "lt_done"
    /\ targetWorkTime = 11 * Hour
    /\ iterations = 0
    /\ ltRet.err = ErrMaxTimeReached

\* C8: for a target of at most ten hours and a non-negative break the
\* search returns, within the MaxIterations loop bodies the model allows.
C8_SearchTerminates ==
    (targetWorkTime <= 10 * Hour /\ breakTime >= 0) => <>(pc = "lt_done")

\* the longest search: ten hours with no break taken
C8_Witness ==
    /\ Returned
    /\ targetWorkTime = 10 * Hour
    /\ breakTime = 0
    /\ iterations = 46

====
